---- MODULE Spec2Model ----
(***************************************************************************)
(* Model of src/game_engine.c: the timer-driven game loop game_engine_run, *)
(* the timer and input callbacks that run in other contexts, and the       *)
(* RunningGameEngine accessors.                                            *)
(*                                                                         *)
(* Abstractions.  uint32_t words are modelled with WordBits bits and the   *)
(* DWT cycle counter with CycleBits bits (TLC integers are 32-bit signed); *)
(* all arithmetic on them is modular as in the source.  float values are   *)
(* modelled as exact rationals <<n, d>> in lowest terms, <<1, 0>> being    *)
(* +infinity (the IEEE result of a positive number divided by zero); float *)
(* rounding is not modelled.                                               *)
(***************************************************************************)
EXTENDS Integers, Sequences, FiniteSets, TLC

\* ---------------------------------------------------------------- bounds
WordBits == 6
CycleBits == 8
MaxTicks == 3
MaxStopCalls == 2

WordModulus == 2 ^ WordBits
CycleModulus == 2 ^ CycleBits

\* ------------------------------------------------------- bit arithmetic
RECURSIVE BitAnd(_, _)
BitAnd(a, b) ==
    IF a = 0 \/ b = 0 THEN 0
    ELSE (a % 2) * (b % 2) + 2 * BitAnd(a \div 2, b \div 2)

RECURSIVE BitOr(_, _)
BitOr(a, b) ==
    IF a = 0 THEN b
    ELSE IF b = 0 THEN a
    ELSE (IF a % 2 = 1 \/ b % 2 = 1 THEN 1 ELSE 0) + 2 * BitOr(a \div 2, b \div 2)

\* ~x on a word
BitNot(x) == (WordModulus - 1) - x

\* ------------------------------------------------------ float arithmetic
RECURSIVE GCD(_, _)
GCD(a, b) == IF b = 0 THEN a ELSE GCD(b, a % b)

Rat(n, d) == LET g == GCD(n, d) IN <<n \div g, d \div g>>

FloatDiv(a, b) == Rat(a[1] * b[2], a[2] * b[1])

FloatOfInt(n) == <<n, 1>>

IsInf(x) == x[2] = 0

\* roundf: nearest integer, halves away from zero (finite, non-negative x)
roundf(x) == (2 * x[1] + x[2]) \div (2 * x[2])

\* ------------------------------------------------------------ constants
GameThreadFlagUpdate == 1
GameThreadFlagStop == 2
GameThreadFlagMask == BitOr(GameThreadFlagUpdate, GameThreadFlagStop)

\* cycles per second of the core clock, scaled to the model's counter width
SystemCoreClock == 240

InputKeyUp == 0
InputKeyDown == 1
InputKeyRight == 2
InputKeyLeft == 3
InputKeyOk == 4
InputKeyBack == 5

GameKeyUp == 1
GameKeyDown == 2
GameKeyRight == 4
GameKeyLeft == 8
GameKeyOk == 16
GameKeyBack == 32

\* keys[InputKey] -> GameKey (the sequence is 1-based: keys[k + 1])
keys == <<GameKeyUp, GameKeyDown, GameKeyRight, GameKeyLeft, GameKeyOk, GameKeyBack>>
keys_count == Len(keys)

InputTypes == {"InputTypePress", "InputTypeRelease", "InputTypeShort"}

\* key codes the input source delivers in the model: three table keys and
\* one code past the end of the table
EventKeys == {InputKeyUp, InputKeyDown, InputKeyOk, keys_count}

\* settings.fps values and true elapsed cycle counts per frame the model draws
TargetFpsSet == {30, 60}
ElapsedSet == {0, 2, 4, 8, CycleModulus - 16}
StartSet == {0, CycleModulus - 3}

\* the table keys the input source delivers events for
\* the key whose changes between two snapshots the history follows
TapKey == InputKeyUp
\* history value: the last snapshot came after an even, non-zero number of
\* changes of TapKey's bit
TapSeen == 3
\* changes of TapKey's bit since the last snapshot: 0, 1 (odd), 2 (even, > 0)
TapNext(c) == IF c = 1 THEN 2 ELSE 1
TableEventKeys == {k \in EventKeys : k < keys_count}

\* ---------------------------------------------------------------- state
VARIABLES
    pc,               \* position of game_engine_run
    settings,         \* engine->settings: [fps, show_fps]
    thread_flags,     \* flag word of engine->thread_id
    flags,            \* local `flags` of the loop: result of the last wait
    input_state,      \* the shared atomic accumulator
    input_prev_state, \* loop-local previous snapshot
    input,            \* InputState handed to the callback
    time_start,       \* cycle counter value at the previous Update
    time_delta,       \* elapsed cycles computed for the current frame
    run_fps,          \* run.fps
    timer,            \* clock timer running
    canvas,           \* [acquired, resets, commits, overlays, text]
    subscribed,       \* input subscription active
    client,           \* what the client callback observed / did
    hist              \* history: counters used to state the properties

vars == <<pc, settings, thread_flags, flags, input_state, input_prev_state, input,
          time_start, time_delta, run_fps, timer, canvas, subscribed, client, hist>>

\* --------------------------------------------------- wrapped primitives
\* uint32_t a - b
\* faulty variant: the difference is clamped at zero instead of wrapping
U32Sub_Clamped(a, b) == IF a >= b THEN a - b ELSE 0
U32Sub(a, b) == (a - b + CycleModulus) % CycleModulus

\* DWT->CYCCNT read d cycles after it read `start`: the counter wraps
CYCCNT(start, d) == (start + d) % CycleModulus

\* furi_thread_flags_set(thread_id, f): sets the bits of f in the flag word
\* faulty variant: signals are counted (queued) instead of OR-ed into the word
furi_thread_flags_set_Counting(word, f) == (word + f) % WordModulus
furi_thread_flags_set(word, f) == BitOr(word, f)

\* furi_thread_flags_wait(mask, FuriFlagWaitAny, FuriWaitForever): ready
\* when a bit of the mask is set; returns the word and clears the mask bits
WaitReady(word) == BitAnd(word, GameThreadFlagMask) # 0
WaitResult(word) == word
\* faulty variant: the wait leaves the flags set (FuriFlagNoClear)
WaitCleared_NoClear(word) == word
WaitCleared(word) == BitAnd(word, BitNot(GameThreadFlagMask))

\* ------------------------------------------------------- pure functions
\* input_events_callback: new value of *input_state
KeyPress(state, key) == BitOr(state, keys[key + 1])
\* faulty variant: the release subtracts the key's bit instead of masking it out
KeyRelease_Subtract(state, key) == (state - keys[key + 1] + WordModulus) % WordModulus
KeyRelease(state, key) == BitAnd(state, BitNot(keys[key + 1]))

\* faulty variant: every type other than release is taken as a press
InputEventResult_AnyType(state, key, type) ==
    IF key < keys_count
    THEN IF type = "InputTypeRelease" THEN KeyRelease(state, key) ELSE KeyPress(state, key)
    ELSE state

\* the event passes both tests of the handler (lines 87, 88, 92)
Recognized(key, type) == key < keys_count /\ type \in {"InputTypePress", "InputTypeRelease"}

InputEventResult(state, key, type) ==
    IF key < keys_count
    THEN CASE type = "InputTypePress" -> KeyPress(state, key)
           [] type = "InputTypeRelease" -> KeyRelease(state, key)
           [] OTHER -> state
    ELSE state

\* InputState built from the snapshot and the previous snapshot
\* faulty variant: pressed is not edge-detected (every held key counts as pressed)
InputPressed_Level(cur, prev) == cur
InputPressed(cur, prev) == BitAnd(cur, BitNot(prev))
\* faulty variant: released holds every key that changed (cur XOR prev)
InputReleased_Changed(cur, prev) == BitOr(cur, prev) - BitAnd(cur, prev)
InputReleased(cur, prev) == BitAnd(BitNot(cur), prev)
InputStateOf(cur, prev) ==
    [held |-> cur, pressed |-> InputPressed(cur, prev), released |-> InputReleased(cur, prev)]

\* run.fps = (float)SystemCoreClock / time_delta
ActualFps(delta) == FloatDiv(FloatOfInt(SystemCoreClock), FloatOfInt(delta))

\* running_game_engine_get_delta_time(run), run = [fps, engine_fps]
\* faulty variant: the delta time is taken from the configured rate
running_game_engine_get_delta_time_Nominal(run) ==
    FloatDiv(FloatOfInt(1), FloatOfInt(run.engine_fps))
running_game_engine_get_delta_time(run) == FloatDiv(FloatOfInt(1), run.fps)

\* running_game_engine_get_delta_frames(run)
\* faulty variant: the ratio is inverted
running_game_engine_get_delta_frames_Inverted(run) ==
    FloatDiv(FloatOfInt(run.engine_fps), run.fps)
running_game_engine_get_delta_frames(run) == FloatDiv(run.fps, FloatOfInt(run.engine_fps))

\* the RunningGameEngine the callback receives
Run == [fps |-> run_fps, engine_fps |-> settings.fps]

\* which branch follows the wait, and which follows the Stop test
HasUpdate(f) == BitAnd(f, GameThreadFlagUpdate) # 0
HasStop(f) == BitAnd(f, GameThreadFlagStop) # 0
\* faulty variant: Stop pre-empts an Update of the same wake
AfterWait_StopFirst(f) ==
    IF HasStop(f) THEN "check_stop" ELSE IF HasUpdate(f) THEN "update" ELSE "check_stop"
\* faulty variant: every wake runs a frame
AfterWait_AlwaysFrame(f) == "update"
AfterWait(f) == IF HasUpdate(f) THEN "update" ELSE "check_stop"
\* faulty variants: the break tests the wrong flag; the break is missing
AfterFrame_WrongFlag(f) == IF HasUpdate(f) THEN "stop_timer" ELSE "wait"
AfterFrame_NoBreak(f) == "wait"
AfterFrame(f) == IF HasStop(f) THEN "stop_timer" ELSE "wait"

\* FuriFlagError: the top bit of the word the wait returns; the error codes
\* of the wait (unknown, timeout, resource, parameter, ISR) are the word's
\* highest values, so they also carry bits of the Update/Stop mask
FuriFlagError == WordModulus \div 2
WaitErrors == {WordModulus - k : k \in {1, 2, 3, 4, 6}}

\* furi_check((flags & FuriFlagError) == 0), then the Update test
\* faulty variant: the result of the wait is not checked
AfterWaitChecked_NoCheck(f) == AfterWait(f)
AfterWaitChecked(f) == IF BitAnd(f, FuriFlagError) # 0 THEN "crashed" ELSE AfterWait(f)

\* (uint32_t)roundf(run.fps): converting +infinity is undefined behaviour
FpsTexts(fps) == IF IsInf(fps) THEN {0, WordModulus - 1} ELSE {roundf(fps)}

\* ----------------------------------------------------------------- Init
\* the state after game_engine_alloc(settings), settings drawn from S
InitWith(S) ==
    /\ pc = "idle"
    /\ settings \in S
    /\ thread_flags = 0
    /\ flags = 0
    /\ input_state = 0
    /\ input_prev_state = 0
    /\ input = [held |-> 0, pressed |-> 0, released |-> 0]
    /\ time_start = 0
    /\ time_delta = 0
    /\ run_fps = FloatOfInt(0)
    /\ timer = FALSE
    /\ canvas = [acquired |-> FALSE, resets |-> 0, commits |-> 0, overlays |-> 0, text |-> 0]
    /\ subscribed = FALSE
    /\ client = [calls |-> 0, dt |-> FloatOfInt(0), df |-> FloatOfInt(0)]
    /\ hist = [ticks |-> 0, ticksPending |-> 0, wakeTicks |-> 0,
               stopCalls |-> 0, stopsPending |-> 0, wakeStops |-> 0,
               stopOrigin |-> "none", updateWakes |-> 0, wakeCalls |-> 0,
               wakeCommits |-> 0, exits |-> 0, timerStops |-> 0, releases |-> 0,
               unsubscribes |-> 0, elapsed |-> 0, heldBefore |-> 0,
               stopAt |-> "none", callsAfterStop |-> 0,
               ignored |-> 0, tapChanges |-> 0,
               lastEvent |-> [k \in TableEventKeys |-> "none"]]

AllSettings == [fps : TargetFpsSet, show_fps : BOOLEAN]
DefaultSettings == {[fps |-> 60, show_fps |-> FALSE]}

Init == InitWith(AllSettings)

\* -------------------------------------------------------------- actions
\* game_engine_run, entry: acquire canvas, subscribe, start timer, read CYCCNT
RunEnter(T) ==
    /\ pc = "idle"
    /\ input_state' = 0
    /\ input_prev_state' = 0
    /\ canvas' = [canvas EXCEPT !.acquired = TRUE]
    /\ subscribed' = TRUE
    /\ timer' = TRUE
    /\ \E t \in T : time_start' = t
    /\ pc' = "wait"
    /\ UNCHANGED <<settings, thread_flags, flags, input, time_delta, run_fps, client, hist>>

\* clock_timer_callback, timer context
clock_timer_callback ==
    /\ timer
    /\ pc # "crashed"
    /\ hist.ticks < MaxTicks
    /\ thread_flags' = furi_thread_flags_set(thread_flags, GameThreadFlagUpdate)
    /\ hist' = [hist EXCEPT !.ticks = @ + 1, !.ticksPending = @ + 1]
    /\ UNCHANGED <<pc, settings, flags, input_state, input_prev_state, input, time_start,
                   time_delta, run_fps, timer, canvas, subscribed, client>>

\* input_events_callback, input context: one atomic read-modify-write
\* the history of a delivered event: the last press/release of each table
\* key and, where the delivery is followed closely (close), the ignored
\* events and the changes of TapKey's bit since the last snapshot
EventHistory(key, type, changed, close) ==
    IF Recognized(key, type)
    THEN [hist EXCEPT !.lastEvent[key] = type,
                      !.tapChanges = IF close /\ key = TapKey /\ changed
                                     THEN TapNext(@) ELSE @]
    ELSE [hist EXCEPT !.ignored = IF close THEN 1 - @ ELSE @]

input_events(key, type, close) ==
    /\ subscribed
    /\ input_state' = InputEventResult(input_state, key, type)
    /\ hist' = EventHistory(key, type, input_state' # input_state, close)
    /\ UNCHANGED <<pc, settings, thread_flags, flags, input_prev_state, input, time_start,
                   time_delta, run_fps, timer, canvas, subscribed, client>>

input_events_callback(key, type) == input_events(key, type, FALSE)

\* furi_thread_flags_wait returns
Wait ==
    /\ pc = "wait"
    /\ WaitReady(thread_flags)
    /\ flags' = WaitResult(thread_flags)
    /\ thread_flags' = WaitCleared(thread_flags)
    /\ pc' = AfterWaitChecked(flags')
    /\ hist' = [hist EXCEPT !.wakeTicks = hist.ticksPending, !.ticksPending = 0,
                            !.wakeStops = hist.stopsPending, !.stopsPending = 0,
                            !.wakeCalls = 0, !.wakeCommits = 0,
                            !.updateWakes = IF HasUpdate(flags') THEN @ + 1 ELSE @]
    /\ UNCHANGED <<settings, input_state, input_prev_state, input, time_start, time_delta,
                   run_fps, timer, canvas, subscribed, client>>

\* furi_thread_flags_wait fails: it returns the error code e and leaves the
\* flag word alone; furi_check then stops the program
WaitFail(e) ==
    /\ pc = "wait"
    /\ flags' = e
    /\ pc' = AfterWaitChecked(flags')
    /\ hist' = [hist EXCEPT !.wakeCalls = 0, !.wakeCommits = 0]
    /\ UNCHANGED <<settings, thread_flags, input_state, input_prev_state, input, time_start,
                   time_delta, run_fps, timer, canvas, subscribed, client>>

\* the Update branch up to the callback: timing, input snapshot, canvas_reset, fps
\* faulty variant: the previous snapshot is not replaced by the current one
FrameBegin_KeepPrevious(d) ==
    /\ pc = "update"
    /\ LET time_end == CYCCNT(time_start, d)
           input_current_state == input_state
       IN /\ time_delta' = U32Sub(time_end, time_start)
          /\ time_start' = time_end
          /\ input' = InputStateOf(input_current_state, input_prev_state)
          /\ input_prev_state' = input_prev_state
    /\ canvas' = [canvas EXCEPT !.resets = @ + 1]
    /\ run_fps' = ActualFps(time_delta')
    /\ hist' = [hist EXCEPT !.elapsed = d, !.heldBefore = input.held,
                             !.tapChanges = IF @ = 2 THEN TapSeen ELSE 0]
    /\ pc' = "callback"
    /\ UNCHANGED <<settings, thread_flags, flags, input_state, timer, subscribed, client>>

FrameBegin(d) ==
    /\ pc = "update"
    /\ LET time_end == CYCCNT(time_start, d)
           input_current_state == input_state
       IN /\ time_delta' = U32Sub(time_end, time_start)
          /\ time_start' = time_end
          /\ input' = InputStateOf(input_current_state, input_prev_state)
          /\ input_prev_state' = input_current_state
    /\ canvas' = [canvas EXCEPT !.resets = @ + 1]
    /\ run_fps' = ActualFps(time_delta')
    /\ hist' = [hist EXCEPT !.elapsed = d, !.heldBefore = input.held,
                             !.tapChanges = IF @ = 2 THEN TapSeen ELSE 0]
    /\ pc' = "callback"
    /\ UNCHANGED <<settings, thread_flags, flags, input_state, timer, subscribed, client>>

\* running_game_engine_stop called n times in a row
RECURSIVE StopTimes(_, _)
StopTimes(word, n) ==
    IF n = 0 THEN word ELSE StopTimes(furi_thread_flags_set(word, GameThreadFlagStop), n - 1)

\* engine->settings.callback(&run, canvas, input, context): the client reads
\* the delta accessors and calls running_game_engine_stop n times
Callback(n) ==
    /\ pc = "callback"
    /\ hist.stopCalls + n <= MaxStopCalls
    /\ client' = [calls |-> client.calls + 1,
                  dt |-> running_game_engine_get_delta_time(Run),
                  df |-> running_game_engine_get_delta_frames(Run)]
    /\ thread_flags' = StopTimes(thread_flags, n)
    /\ hist' = [hist EXCEPT !.wakeCalls = @ + 1,
                            !.callsAfterStop = IF hist.stopCalls >= 1 THEN @ + 1 ELSE @,
                            !.stopAt = IF @ = "none" /\ n > 0 THEN "in_callback" ELSE @,
                            !.stopCalls = @ + n,
                            !.stopsPending = @ + n,
                            !.stopOrigin =
                                IF n = 0
                                THEN (IF @ = "none" /\ client.calls = 0 THEN "other" ELSE @)
                                ELSE IF @ = "none" THEN "first_callback" ELSE @]
    /\ pc' = "overlay"
    /\ UNCHANGED <<settings, flags, input_state, input_prev_state, input, time_start,
                   time_delta, run_fps, timer, canvas, subscribed>>

\* faulty variant: a stop requested during the frame cancels its drawing
FrameEnd_CancelOnStop ==
    /\ pc = "overlay"
    /\ IF HasStop(thread_flags)
       THEN canvas' = canvas /\ hist' = hist
       ELSE /\ canvas' = [canvas EXCEPT
                            !.overlays = IF settings.show_fps THEN @ + 1 ELSE @,
                            !.text = IF settings.show_fps THEN roundf(run_fps) ELSE @,
                            !.commits = @ + 1]
            /\ hist' = [hist EXCEPT !.wakeCommits = @ + 1]
    /\ pc' = "check_stop"
    /\ UNCHANGED <<settings, thread_flags, flags, input_state, input_prev_state, input,
                   time_start, time_delta, run_fps, timer, subscribed, client>>

\* faulty variant: the overlay is drawn whether or not show_fps is set
FrameEnd_AlwaysOverlay ==
    /\ pc = "overlay"
    /\ canvas' = [canvas EXCEPT !.overlays = @ + 1, !.text = roundf(run_fps),
                                !.commits = @ + 1]
    /\ hist' = [hist EXCEPT !.wakeCommits = @ + 1]
    /\ pc' = "check_stop"
    /\ UNCHANGED <<settings, thread_flags, flags, input_state, input_prev_state, input,
                   time_start, time_delta, run_fps, timer, subscribed, client>>

\* the optional FPS overlay and canvas_commit
FrameEnd ==
    /\ pc = "overlay"
    /\ IF settings.show_fps
       THEN \E t \in FpsTexts(run_fps) :
               canvas' = [canvas EXCEPT !.overlays = @ + 1, !.text = t, !.commits = @ + 1]
       ELSE canvas' = [canvas EXCEPT !.commits = @ + 1]
    /\ hist' = [hist EXCEPT !.wakeCommits = @ + 1]
    /\ pc' = "check_stop"
    /\ UNCHANGED <<settings, thread_flags, flags, input_state, input_prev_state, input,
                   time_start, time_delta, run_fps, timer, subscribed, client>>

\* if(flags & GameThreadFlagStop) break;
CheckStop ==
    /\ pc = "check_stop"
    /\ pc' = AfterFrame(flags)
    /\ hist' = [hist EXCEPT !.exits = IF pc' = "stop_timer" THEN @ + 1 ELSE @]
    /\ UNCHANGED <<settings, thread_flags, flags, input_state, input_prev_state, input,
                   time_start, time_delta, run_fps, timer, canvas, subscribed, client>>

\* clock_timer_stop()
ClockTimerStop ==
    /\ pc = "stop_timer"
    /\ timer' = FALSE
    /\ pc' = "release"
    /\ hist' = [hist EXCEPT !.timerStops = @ + 1]
    /\ UNCHANGED <<settings, thread_flags, flags, input_state, input_prev_state, input,
                   time_start, time_delta, run_fps, canvas, subscribed, client>>

\* gui_direct_draw_release(engine->gui)
DirectDrawRelease ==
    /\ pc = "release"
    /\ canvas' = [canvas EXCEPT !.acquired = FALSE]
    /\ pc' = "unsubscribe"
    /\ hist' = [hist EXCEPT !.releases = @ + 1]
    /\ UNCHANGED <<settings, thread_flags, flags, input_state, input_prev_state, input,
                   time_start, time_delta, run_fps, timer, subscribed, client>>

\* furi_pubsub_unsubscribe(...); game_engine_run returns
Unsubscribe ==
    /\ pc = "unsubscribe"
    /\ subscribed' = FALSE
    /\ pc' = "done"
    /\ hist' = [hist EXCEPT !.unsubscribes = @ + 1]
    /\ UNCHANGED <<settings, thread_flags, flags, input_state, input_prev_state, input,
                   time_start, time_delta, run_fps, timer, canvas, client>>

\* running_game_engine_stop called from outside the callback while the run exists
ExternalStop ==
    /\ pc \notin {"idle", "done", "crashed"}
    /\ hist.stopCalls < MaxStopCalls
    /\ thread_flags' = furi_thread_flags_set(thread_flags, GameThreadFlagStop)
    /\ hist' = [hist EXCEPT !.stopCalls = @ + 1, !.stopsPending = @ + 1,
                            !.stopOrigin = "other",
                            !.stopAt = IF @ = "none" THEN pc ELSE @]
    /\ UNCHANGED <<pc, settings, flags, input_state, input_prev_state, input, time_start,
                   time_delta, run_fps, timer, canvas, subscribed, client>>

\* the steps of game_engine_run: the first CYCCNT reading drawn from T, a
\* frame's elapsed cycles from E, the stop calls of one callback from N
LoopStep(T, E, N) ==
    \/ RunEnter(T)
    \/ Wait
    \/ \E d \in E : FrameBegin(d)
    \/ \E n \in N : Callback(n)
    \/ FrameEnd
    \/ CheckStop
    \/ ClockTimerStop
    \/ DirectDrawRelease
    \/ Unsubscribe

\* The three contexts touch disjoint shared state (the flag word, the input
\* accumulator, the cycle counter), so each is explored with the others at
\* one nominal value.

\* the loop, the timer and stop requests; a nominal elapsed time per frame
NominalElapsed == SystemCoreClock \div 60

Next ==
    \/ LoopStep({0}, {NominalElapsed}, 0..MaxStopCalls)
    \/ clock_timer_callback
    \/ ExternalStop

Spec == Init /\ [][Next]_vars

\* the loop is scheduled whenever it can run; the timer and the callers of
\* running_game_engine_stop are under no obligation
FairSpec == Spec /\ WF_vars(LoopStep({0}, {NominalElapsed}, 0..MaxStopCalls))

\* the loop, the timer and the input source
NextInput ==
    \/ LoopStep({0}, {NominalElapsed}, {0, 1})
    \/ clock_timer_callback
    \/ \E key \in EventKeys, type \in InputTypes : input_events_callback(key, type)

SpecInput == InitWith(DefaultSettings) /\ [][NextInput]_vars

\* the loop, the timer and the input source followed event by event, for
\* two table keys and one code outside the table
TapEventKeys == {InputKeyUp, InputKeyDown, keys_count}

NextKeys ==
    \/ LoopStep({0}, {NominalElapsed}, {0, 1})
    \/ clock_timer_callback
    \/ \E key \in TapEventKeys, type \in InputTypes : input_events(key, type, TRUE)

SpecKeys == InitWith(DefaultSettings) /\ [][NextKeys]_vars

\* the loop, the timer and the cycle counter
NextTime ==
    \/ LoopStep(StartSet, ElapsedSet, {0, 1})
    \/ clock_timer_callback

SpecTime == Init /\ [][NextTime]_vars

\* the loop, the timer, stop requests and a wait that can fail
NextFault ==
    \/ Next
    \/ \E e \in WaitErrors : WaitFail(e)

SpecFault == Init /\ [][NextFault]_vars

TypeOK ==
    /\ pc \in {"idle", "wait", "update", "callback", "overlay", "check_stop",
               "stop_timer", "release", "unsubscribe", "done", "crashed"}
    /\ thread_flags \in 0..(WordModulus - 1)
    /\ input_state \in 0..(WordModulus - 1)
    /\ time_start \in 0..(CycleModulus - 1)

\* ------------------------------------------------------------ properties
FramePcs == {"update", "callback", "overlay", "check_stop"}
TeardownPcs == {"stop_timer", "release", "unsubscribe", "done"}

\* the keys whose bit is set in a mask
KeysOf(mask) == {k \in 0..(WordBits - 1) : (mask \div (2 ^ k)) % 2 = 1}

\* C1: Update signals are coalesced, never queued.  An Update is pending
\* exactly when at least one tick fired since the last return of the wait;
\* a wake that carries Update answers N >= 1 ticks and runs exactly one
\* callback and one commit for them; at every wait the loop has processed
\* one frame per Update wake, never more frames than ticks.
C1_Coalesced ==
    /\ HasUpdate(thread_flags) <=> hist.ticksPending >= 1
    /\ (pc \in FramePcs /\ HasUpdate(flags)) => hist.wakeTicks >= 1 /\ hist.wakeCalls <= 1
    /\ (pc = "check_stop" /\ HasUpdate(flags)) => hist.wakeCalls = 1 /\ hist.wakeCommits = 1
    /\ pc = "wait" => client.calls = hist.updateWakes /\ canvas.commits = hist.updateWakes
    /\ hist.updateWakes <= hist.ticks

C1_Witness ==
    /\ pc = "check_stop"
    /\ hist.wakeTicks >= 2
    /\ hist.wakeCalls = 1
    /\ hist.wakeCommits = 1

AllReleased == ~timer /\ ~canvas.acquired /\ ~subscribed

\* the run is over and the only stop requests came from the callback, whose
\* very first invocation made one
FirstCallbackStopped == hist.stopOrigin = "first_callback"

\* C2 (as claimed): with a callback that calls running_game_engine_stop on
\* its first invocation, the run ends after exactly one callback invocation
\* and one commit, with timer, surface and subscription released.
C2_ExactlyOneFrame ==
    (pc = "done" /\ FirstCallbackStopped) =>
        client.calls = 1 /\ canvas.commits = 1 /\ AllReleased

\* C2 (amended): with such a callback the loop exits with everything released
\* after one frame, or after two when a timer tick fired between the wake of
\* the first frame and the loop's next wait (that wake carries Update and
\* Stop together); commits equal callback invocations; and the loop does
\* exit once the callback has asked for it.
C2_OneOrTwoFrames ==
    /\ [](pc = "done" /\ FirstCallbackStopped =>
            (/\ client.calls = (IF hist.wakeTicks >= 1 THEN 2 ELSE 1)
             /\ canvas.commits = client.calls
             /\ AllReleased))
    /\ (FirstCallbackStopped ~> pc = "done")

C2_Witness ==
    /\ pc = "done"
    /\ FirstCallbackStopped
    /\ client.calls = 1
    /\ canvas.commits = 1
    /\ AllReleased

\* C3: stop is idempotent.  A stop call leaves the flag word with the Stop
\* bit set and the Update bit as it was, whether or not Stop was already
\* pending (so k calls leave what one call leaves); Stop is pending exactly
\* when a stop was requested since the last wake; and however many requests
\* one wake collapses, the loop exits once and each teardown step runs once.
StopCallSetsOneBit ==
    (hist'.stopCalls > hist.stopCalls) =>
        /\ KeysOf(thread_flags') = KeysOf(thread_flags) \cup {1}
        /\ (HasStop(thread_flags) => thread_flags' = thread_flags)

C3_StopIdempotent ==
    /\ [][StopCallSetsOneBit]_vars
    /\ [](HasStop(thread_flags) <=> hist.stopsPending >= 1)
    /\ [](pc = "done" =>
            (/\ hist.exits = 1
             /\ hist.timerStops = 1 /\ hist.releases = 1 /\ hist.unsubscribes = 1))

C3_Witness ==
    /\ pc = "done"
    /\ hist.wakeStops >= 2
    /\ hist.exits = 1
    /\ hist.timerStops = 1

\* C4: once the loop has seen Stop in the flags of a wake it leaves the loop;
\* from then on the callback is never invoked and no frame state is entered;
\* the timer is stopped first, then the surface released, then the input
\* subscription removed, and the final state is terminal.
StopObservedLeavesLoop ==
    (pc = "check_stop" /\ HasStop(flags) /\ pc' # pc) => pc' = "stop_timer"

NoFrameAfterStop ==
    /\ pc \in TeardownPcs =>
        /\ client'.calls = client.calls
        /\ canvas'.commits = canvas.commits
        /\ pc' \in TeardownPcs
    /\ pc = "done" => pc' = "done"

C4_StopTerminal ==
    /\ [][StopObservedLeavesLoop]_vars
    /\ [][NoFrameAfterStop]_vars
    /\ [](pc = "stop_timer" => timer /\ canvas.acquired /\ subscribed)
    /\ [](pc = "release" => ~timer /\ canvas.acquired /\ subscribed)
    /\ [](pc = "unsubscribe" => ~timer /\ ~canvas.acquired /\ subscribed)
    /\ [](pc = "done" => AllReleased)

C4_Witness ==
    /\ pc = "done"
    /\ client.calls >= 1
    /\ AllReleased

\* C5: a wake that returns Update and Stop together runs the whole frame
\* (snapshot and reset, callback, overlay when configured, commit) before
\* the loop leaves: whenever the Stop test or the teardown is reached after
\* such a wake, that wake's callback and commit have happened.
C5_UpdateBeforeStop ==
    (pc \in ({"check_stop"} \cup TeardownPcs) /\ HasUpdate(flags) /\ HasStop(flags)) =>
        /\ hist.wakeCalls = 1
        /\ hist.wakeCommits = 1
        /\ canvas.resets = client.calls
        /\ canvas.commits = client.calls
        /\ canvas.overlays = (IF settings.show_fps THEN client.calls ELSE 0)

C5_Witness ==
    /\ pc = "done"
    /\ HasUpdate(flags) /\ HasStop(flags)
    /\ hist.wakeCalls = 1
    /\ hist.wakeCommits = 1

\* the step in which the loop reads the accumulator and builds the InputState
SnapshotStep == pc = "update" /\ pc' = "callback"

\* the InputState of the step, stated on key sets: held is the accumulator
\* as read, and the edges are taken against the held of the frame before
InputStateDerived ==
    SnapshotStep =>
        /\ input'.held = input_state
        /\ KeysOf(input'.pressed) = KeysOf(input_state) \ KeysOf(input.held)
        /\ KeysOf(input'.released) = KeysOf(input.held) \ KeysOf(input_state)
        /\ (client.calls = 0 => KeysOf(input'.pressed) = KeysOf(input_state))
        /\ (client.calls = 0 => input'.released = 0)

\* C6: in every frame held is the accumulator value read in that frame,
\* pressed = held AND NOT previous_held, released = previous_held AND NOT
\* held, previous_held being the held of the preceding frame and 0 in the
\* first frame of a run.
C6_InputState == [][InputStateDerived]_vars

\* previous {Up}, snapshot {Up, Down}: pressed {Down}, released {}
C6_Witness ==
    /\ pc = "callback"
    /\ hist.heldBefore = GameKeyUp
    /\ input.held = GameKeyUp + GameKeyDown
    /\ input.pressed = GameKeyDown
    /\ input.released = 0

\* previous {Ok}, snapshot {}: released {Ok}, pressed {}
C6_ReleaseExample ==
    /\ pc = "callback"
    /\ hist.heldBefore = GameKeyOk
    /\ input.held = 0
    /\ input.pressed = 0
    /\ input.released = GameKeyOk

\* C7: in every frame, whatever key events arrived since the previous
\* snapshot, no key is in both the pressed and the released mask.
C7_PressedReleasedDisjoint ==
    KeysOf(input.pressed) \cap KeysOf(input.released) = {}

C7_Witness ==
    /\ pc = "callback"
    /\ input.pressed # 0
    /\ input.released # 0
    /\ KeysOf(input.pressed) \cap KeysOf(input.released) = {}

AccumulatorFollowsEvents ==
    /\ \A k \in TableEventKeys :
          ((input_state \div keys[k + 1]) % 2 = 1) <=> (hist.lastEvent[k] = "InputTypePress")
    /\ KeysOf(input_state) \subseteq {k \in 0..(WordBits - 1) : \E e \in TableEventKeys : keys[e + 1] = 2 ^ k}

SnapshotLeavesAccumulator == SnapshotStep => input_state' = input_state

\* C8: under every interleaving of input events with the loop, the bit of a
\* table key is set in the accumulator exactly when the last press/release
\* event delivered for that key was a press, no other bit is ever set, and
\* the loop's snapshot read leaves the accumulator as it was.
C8_NoEventLost ==
    /\ []AccumulatorFollowsEvents
    /\ [][SnapshotLeavesAccumulator]_vars

C8_Witness ==
    /\ pc = "callback"
    /\ client.calls >= 1
    /\ hist.lastEvent[InputKeyUp] = "InputTypePress"
    /\ hist.lastEvent[InputKeyOk] = "InputTypeRelease"
    /\ input_state = GameKeyUp
    /\ input.held = GameKeyUp + GameKeyOk

\* the accessor results the client holds belong to the frame whose timing
\* the loop variables hold
AccessorsCurrent == client.calls >= 1 /\ pc # "callback"

\* C9 (as claimed): the delta time is 1 / settings.fps, the same in every
\* frame (stated for frames with a non-zero elapsed cycle count).
C9_DeltaTimeIsNominal ==
    (AccessorsCurrent /\ time_delta > 0) => client.dt = <<1, settings.fps>>

\* C9 (amended): running_game_engine_get_delta_time returns 1 / run.fps, the
\* reciprocal of the FPS measured for the current frame, that is the frame's
\* elapsed cycles over the core clock frequency; it does not depend on
\* settings.fps and changes from frame to frame with the measured rate.
C9_DeltaTimeIsMeasured ==
    AccessorsCurrent =>
        /\ client.dt[2] # 0
        /\ client.dt[1] * SystemCoreClock = time_delta * client.dt[2]

C9_Witness ==
    /\ AccessorsCurrent
    /\ time_delta > 0
    /\ run_fps # <<settings.fps, 1>>
    /\ client.dt # <<1, settings.fps>>
    /\ client.dt[1] * SystemCoreClock = time_delta * client.dt[2]

\* C10: running_game_engine_get_delta_frames returns measured_fps /
\* target_fps: exactly 1 when the measured FPS equals settings.fps, exactly 2
\* when it is twice settings.fps (and +infinity when the measured FPS is).
C10_DeltaFrames ==
    AccessorsCurrent =>
        /\ time_delta > 0 =>
              /\ client.df[2] # 0
              /\ client.df[1] * settings.fps * time_delta = SystemCoreClock * client.df[2]
        /\ time_delta = 0 => IsInf(client.df)
        /\ run_fps = <<settings.fps, 1>> => client.df = <<1, 1>>
        /\ run_fps = <<2 * settings.fps, 1>> => client.df = <<2, 1>>

C10_Witness ==
    /\ AccessorsCurrent
    /\ run_fps = <<2 * settings.fps, 1>>
    /\ client.df = <<2, 1>>

C10_OnTarget ==
    /\ AccessorsCurrent
    /\ run_fps = <<settings.fps, 1>>
    /\ client.df = <<1, 1>>

\* C11: a zero elapsed cycle count is guarded: the loop does not divide by
\* it, so the FPS of such a frame is a finite number (clamped, or kept from
\* the frame before), and so are the deltas handed to the client.
C11_ZeroElapsedGuarded ==
    (hist.updateWakes >= 1 /\ pc \notin {"wait", "update"} /\ time_delta = 0) =>
        ~IsInf(run_fps)

\* a wait returns with the error bit set
FailedWake == pc = "wait" /\ pc' # pc /\ BitAnd(flags', FuriFlagError) # 0

WaitErrorAborts ==
    /\ FailedWake => pc' = "crashed"
    /\ pc = "crashed" =>
          /\ pc' = "crashed"
          /\ client' = client
          /\ canvas' = canvas
          /\ flags' = flags

\* C13: a wait result with the error bit set stops the program at once: no
\* frame state is entered for that wake although the error code carries
\* Update/Stop bits, the callback is not invoked, nothing is drawn, and the
\* loop never waits again.
C13_WaitErrorFatal ==
    /\ [][WaitErrorAborts]_vars
    /\ [](pc = "crashed" =>
            (/\ BitAnd(flags, FuriFlagError) # 0
             /\ hist.wakeCalls = 0
             /\ hist.wakeCommits = 0
             /\ canvas.resets = client.calls
             /\ canvas.commits = client.calls))
    /\ [](BitAnd(flags, FuriFlagError) # 0 => pc = "crashed")

C13_Witness ==
    /\ pc = "crashed"
    /\ HasUpdate(flags)
    /\ HasUpdate(thread_flags)
    /\ client.calls >= 1
    /\ hist.wakeCalls = 0

\* a stop has been requested while the run exists
StopRequested == hist.stopCalls >= 1

\* C14 (as claimed): at most one callback invocation begins after the stop
\* request was raised.
C14_AtMostOneCallAfterStop == hist.callsAfterStop <= 1

\* C14 (amended): once running_game_engine_stop has been called during the
\* run, game_engine_run eventually exits, and at most two callback
\* invocations begin after the request: at most one when it was raised from
\* inside the callback, later in the frame, or while the loop was blocked in
\* the wait; two only when it was raised from outside between the wake of a
\* frame and that frame's callback and a tick fires before the next wait.
C14_BoundedShutdown ==
    /\ [](hist.callsAfterStop <= 2)
    /\ [](hist.stopAt \notin {"update", "callback"} => hist.callsAfterStop <= 1)
    /\ [](hist.stopAt \in TeardownPcs => hist.callsAfterStop = 0)
    /\ (StopRequested ~> pc = "done")

C14_Witness ==
    /\ pc = "done"
    /\ hist.stopAt = "in_callback"
    /\ hist.callsAfterStop = 1
    /\ client.calls = 2

C14_TwoCallsAfterStop ==
    /\ pc = "done"
    /\ hist.stopAt = "update"
    /\ hist.callsAfterStop = 2

\* a stop was requested after the wake of the frame in progress
StopRaisedMidFrame == HasStop(thread_flags) /\ ~HasStop(flags)

\* the Stop test only reads the flags of the wake: with no Stop in them the
\* loop goes back to the wait, whatever is pending in the flag word
StopTestReadsWakeFlags ==
    (pc = "check_stop" /\ ~HasStop(flags) /\ pc' # pc) => pc' = "wait"

\* C15: cancellation is cooperative.  A stop raised while a frame is in
\* progress does not cut it short: when the frame reaches the Stop test its
\* callback, its overlay (if show_fps) and its commit have happened; the
\* test then sends the loop back to the wait, and the loop leaves only
\* through a wake whose flags carry Stop.
C15_Cooperative ==
    /\ []((pc = "check_stop" /\ HasUpdate(flags) /\ StopRaisedMidFrame) =>
            (/\ hist.wakeCalls = 1
             /\ hist.wakeCommits = 1
             /\ canvas.commits = client.calls
             /\ canvas.overlays = (IF settings.show_fps THEN client.calls ELSE 0)))
    /\ [][StopTestReadsWakeFlags]_vars
    /\ [](pc \in TeardownPcs => HasStop(flags))

C15_Witness ==
    /\ pc = "wait"
    /\ StopRaisedMidFrame
    /\ hist.stopAt = "in_callback"
    /\ settings.show_fps
    /\ hist.wakeCalls = 1
    /\ hist.wakeCommits = 1
    /\ canvas.overlays = client.calls

\* C16: every observed Update runs, in order and to completion before the
\* next wait: one surface reset, one callback invocation, the FPS overlay
\* exactly when show_fps is set, one commit.  So resets, callbacks and
\* commits advance in that order within a frame and are equal at every
\* wait, where they also equal the number of Update wakes.
C16_FrameSequence ==
    /\ canvas.overlays = (IF settings.show_fps THEN canvas.commits ELSE 0)
    /\ pc = "callback" => canvas.resets = client.calls + 1 /\ canvas.commits = client.calls
    /\ pc = "overlay" => canvas.resets = client.calls /\ canvas.commits + 1 = client.calls
    /\ pc \notin {"callback", "overlay"} =>
          canvas.resets = client.calls /\ canvas.commits = client.calls
    /\ pc = "update" => hist.updateWakes = client.calls + 1
    /\ pc \in {"wait", "check_stop"} => hist.updateWakes = client.calls

C16_Witness ==
    /\ pc = "wait"
    /\ settings.show_fps
    /\ hist.updateWakes = 2
    /\ canvas.resets = 2
    /\ client.calls = 2
    /\ canvas.overlays = 2
    /\ canvas.commits = 2

C16_NoOverlay ==
    /\ pc = "wait"
    /\ ~settings.show_fps
    /\ canvas.commits = 2
    /\ canvas.overlays = 0

\* the step that reads the cycle counter: the new start is the counter as
\* read, the old start plus the cycles that really passed, wrapped
CounterStep ==
    SnapshotStep =>
        /\ time_start' = (time_start + hist'.elapsed) % CycleModulus
        /\ (time_start' - time_start - time_delta') % CycleModulus = 0
        /\ time_delta' \in 0..(CycleModulus - 1)

\* C17: the elapsed count of a frame is (now - start) modulo the counter
\* width, start being the reading of the previous Update (of loop entry for
\* the first frame) and then set to now; it equals the cycles that really
\* passed, also when the counter wrapped once in between.
C17_ElapsedModular ==
    /\ [][CounterStep]_vars
    /\ [](hist.elapsed < CycleModulus => time_delta = hist.elapsed)

\* the counter wrapped between the two readings (now < elapsed)
C17_Witness ==
    /\ pc = "callback"
    /\ client.calls >= 1
    /\ hist.elapsed > 0
    /\ time_start < hist.elapsed
    /\ time_delta = hist.elapsed

FlagsPending == BitAnd(thread_flags, GameThreadFlagMask) # 0

\* C18: when game_engine_run returns, neither Update nor Stop is pending on
\* the thread, whatever the interleaving of ticks and stop requests with the
\* final wake and the teardown.
C18_NoFlagLeftPending == pc = "done" => ~FlagsPending

\* what the code does leave: the flags of the wake that ended the loop are
\* consumed, Update stays pending exactly when a tick fired after that wake
\* (before clock_timer_stop), Stop exactly when a stop was requested after it
LateFlagsPending ==
    pc = "done" =>
        /\ HasUpdate(thread_flags) <=> hist.ticksPending >= 1
        /\ HasStop(thread_flags) <=> hist.stopsPending >= 1
        /\ (hist.ticksPending = 0 /\ hist.stopsPending = 0) => thread_flags = 0
        /\ HasStop(flags)

BothFlagsLeftPending ==
    /\ pc = "done"
    /\ HasUpdate(thread_flags)
    /\ HasStop(thread_flags)
    /\ hist.ticksPending >= 1
    /\ hist.stopsPending >= 1

CleanReturn ==
    /\ pc = "done"
    /\ thread_flags = 0
    /\ hist.wakeTicks >= 1
    /\ hist.wakeStops >= 1

\* a wake without Update goes straight to the Stop test and changes nothing
\* of the frame state
StopOnlyWake ==
    (pc = "wait" /\ pc' # pc /\ ~HasUpdate(flags')) =>
        /\ pc' = "check_stop"
        /\ canvas' = canvas
        /\ client' = client
        /\ input_prev_state' = input_prev_state
        /\ time_start' = time_start

\* from the Stop test to the return nothing of the frame state changes
NoFrameEffectOutsideFrame ==
    (pc \in ({"check_stop"} \cup TeardownPcs)) =>
        /\ canvas'.resets = canvas.resets
        /\ canvas'.commits = canvas.commits
        /\ client' = client
        /\ input_prev_state' = input_prev_state
        /\ time_start' = time_start

\* C19: a wake that carries only Stop processes no frame: no reset, no
\* callback, no commit, and previous_held and the cycle-counter start stay
\* as they were; the frame states are entered only from a wake with Update.
C19_StopOnlyNoFrame ==
    /\ [][StopOnlyWake]_vars
    /\ [][NoFrameEffectOutsideFrame]_vars
    /\ [](pc \in {"update", "callback", "overlay"} => HasUpdate(flags))
    /\ []((pc \in ({"check_stop"} \cup TeardownPcs) /\ ~HasUpdate(flags)) =>
            (hist.wakeCalls = 0 /\ hist.wakeCommits = 0))

C19_Witness ==
    /\ pc = "done"
    /\ HasStop(flags)
    /\ ~HasUpdate(flags)
    /\ client.calls >= 1
    /\ input_prev_state # 0
    /\ hist.wakeCalls = 0
    /\ hist.wakeCommits = 0

BitOf(word, bit) == (word \div bit) % 2

\* what the handler computes for an event, for every event it can receive
EventEffect(key, type) ==
    LET r == InputEventResult(input_state, key, type)
    IN IF Recognized(key, type)
       THEN /\ BitOf(r, keys[key + 1]) = (IF type = "InputTypePress" THEN 1 ELSE 0)
            /\ BitAnd(r, BitNot(keys[key + 1])) = BitAnd(input_state, BitNot(keys[key + 1]))
       ELSE r = input_state

\* a delivered event that fails a test changes nothing the program holds
IgnoredEventStep ==
    hist'.ignored # hist.ignored =>
        /\ input_state' = input_state
        /\ pc' = pc
        /\ thread_flags' = thread_flags
        /\ input' = input
        /\ input_prev_state' = input_prev_state

\* every change of the accumulator is the change of one table key's bit
OneKeyBitStep ==
    input_state' # input_state =>
        \E k \in TableEventKeys :
            /\ hist'.lastEvent[k] \in {"InputTypePress", "InputTypeRelease"}
            /\ BitOf(input_state', keys[k + 1]) # BitOf(input_state, keys[k + 1])
            /\ BitAnd(input_state', BitNot(keys[k + 1])) = BitAnd(input_state, BitNot(keys[k + 1]))

\* C12: an event whose key is outside the table (key >= keys_count) or whose
\* type is neither press nor release leaves the accumulator unchanged and
\* the loop where it was; only press/release events of table keys change it, and
\* each changes only the bit of its key.
C12_UnrecognizedIgnored ==
    /\ [](\A key \in EventKeys, type \in InputTypes : EventEffect(key, type))
    /\ [][IgnoredEventStep]_vars
    /\ [][OneKeyBitStep]_vars

C12_Witness ==
    /\ hist.ignored = 1
    /\ hist.lastEvent[InputKeyUp] = "InputTypePress"
    /\ hist.lastEvent[InputKeyDown] = "InputTypeRelease"
    /\ input_state = keys[InputKeyUp + 1]
    /\ pc = "callback"

\* C20: when the bit of a key changed an even, non-zero number of times
\* between two consecutive snapshot reads (pressed and released again, or
\* released and pressed again), the frame of the second snapshot shows the
\* key in neither pressed nor released, and held for it is as in the frame
\* before.
C20_EdgesBetweenSnapshotsOnly ==
    (hist.tapChanges = TapSeen /\ pc \in {"callback", "overlay"}) =>
        /\ BitOf(input.pressed, keys[TapKey + 1]) = 0
        /\ BitOf(input.released, keys[TapKey + 1]) = 0
        /\ BitOf(input.held, keys[TapKey + 1]) = BitOf(hist.heldBefore, keys[TapKey + 1])

\* tapped between the first and the second snapshot while not held
C20_Witness ==
    /\ hist.tapChanges = TapSeen
    /\ pc = "callback"
    /\ client.calls >= 1
    /\ hist.lastEvent[TapKey] = "InputTypeRelease"
    /\ BitOf(input.held, keys[TapKey + 1]) = 0

\* released and pressed again while held
C20_HeldThrough ==
    /\ hist.tapChanges = TapSeen
    /\ pc = "callback"
    /\ hist.lastEvent[TapKey] = "InputTypePress"
    /\ BitOf(input.held, keys[TapKey + 1]) = 1
    /\ BitOf(hist.heldBefore, keys[TapKey + 1]) = 1

====
